---- MODULE Spec2Model ----
(***************************************************************************)
(* Model of sew.py: eight decorators that run a target function on a       *)
(* background thread (threading.Thread) or timer (threading.Timer).        *)
(*                                                                         *)
(* A caller thread executes the body of a wrapper `call` statement by      *)
(* statement (construct, set daemon, start, join, return); a background    *)
(* unit executes its run-body step by step (wait out the delay, invoke the *)
(* target, store the result, exit).  The steps of callers and units        *)
(* interleave freely, as preemptive OS threads do.                         *)
(*                                                                         *)
(* A run decorates one target with one of the eight decorators (and a      *)
(* delay, for the delayed ones); the callers then call the resulting       *)
(* wrapper, each call binding its own arguments.                           *)
(***************************************************************************)
EXTENDS Naturals, Sequences, FiniteSets

VARIABLES
    wrapper,  \* the decorated function: which decorator, target and delay
    units,    \* the thread / timer objects created so far, in creation order
    pc,       \* per caller: position inside the wrapper's `call`
    cur,      \* per caller: index in units of the local `thread` / `function_timer`
    result,   \* per caller: value its wrapper call returned (None until then)
    counter,  \* shared counter the target "incr" increments (its side effect)
    exited    \* the hosting process has exited

vars == <<wrapper, units, pc, cur, result, counter, exited>>

\* ---- bounds of the model ----
MaxUnits == 2     \* calls of the wrapper made in one run
MaxArg == 2       \* square is called with one argument in 1..MaxArg
MaxDelay == 1     \* delays are 0..MaxDelay seconds

\* ---- inputs ----
Callers == {"main", "worker"}

ImmediateVariants ==
    {"thread", "thread_join", "thread_daemon", "thread_with_return_value"}

DelayedVariants ==
    {"delay", "delay_join", "delay_daemon", "delay_with_return_value"}

Variants == ImmediateVariants \cup DelayedVariants

\* Target functions a caller may decorate:
\*   square(x) returns x * x;  incr() increments the shared counter and
\*   returns nothing;  faulty() raises;  spin() never terminates.
Functions == {"square", "incr", "faulty", "spin"}

\* The positional arguments bound at the call: square takes one number, the
\* other targets are called without arguments.
ArgsOf(function) ==
    IF function = "square" THEN {<<x>> : x \in 1..MaxArg} ELSE {<<>>}

Delays == 0..MaxDelay

\* ---- values ----
\* Python's None is the empty tuple, an integer v is the 1-tuple <<v>>.
None == <<>>

Value(v) == <<v>>

\* What function(*args) evaluates to when it returns.
Apply(function, args) ==
    IF function = "square" THEN Value(args[1] * args[1]) ELSE None

Terminates(function) == function \in {"square", "incr"}

Raises(function) == function = "faulty"

\* ---- the four kinds of background unit ----
\* threading.Thread, threading.Timer, _FunctionThreadWithReturnValue,
\* _DelayedFunctionWithReturnValue
UnitClass(variant) ==
    CASE variant \in {"thread", "thread_join", "thread_daemon"} -> "Thread"
      [] variant = "thread_with_return_value" -> "FunctionThreadWithReturnValue"
      [] variant \in {"delay", "delay_join", "delay_daemon"} -> "Timer"
      [] variant = "delay_with_return_value" -> "DelayedFunctionWithReturnValue"

\* the classes whose run() stores the target's result in self.return_value
StoresReturnValue(class) ==
    class \in {"FunctionThreadWithReturnValue", "DelayedFunctionWithReturnValue"}

IsTimer(class) == class \in {"Timer", "DelayedFunctionWithReturnValue"}

\* the wrappers whose `call` sets `.daemon = True` before start()
SetsDaemon(variant) == variant \in {"thread_daemon", "delay_daemon"}

\* every blocking wrapper but thread_join joins
Joins_NotThreadJoin(variant) ==
    variant \in {"thread_with_return_value",
                 "delay_join", "delay_with_return_value"}

\* every wrapper joins
Joins_All(variant) == TRUE

\* the wrappers whose `call` invokes `.join()` after start()
Joins(variant) ==
    variant \in {"thread_join", "thread_with_return_value",
                 "delay_join", "delay_with_return_value"}

\* a `call` that ends without a return statement
ReturnedValue_NoReturn(variant, unit) == None

\* a `call` that hands back what the target evaluates to
ReturnedValue_TargetResult(variant, unit) == Apply(unit.function, unit.args)

\* The value the wrapper's `call` hands back: only delay_with_return_value has
\* a `return function_timer.return_value`; every other `call` falls off its end.
ReturnedValue(variant, unit) ==
    IF variant = "delay_with_return_value" THEN unit.return_value ELSE None

\* A new thread object: __init__ stores the call and clears the slot.
NewUnit(variant, function, args, seconds, owner) ==
    [ variant      |-> variant,
      class        |-> UnitClass(variant),
      function     |-> function,
      args         |-> args,
      seconds      |-> seconds,
      owner        |-> owner,
      daemon       |-> FALSE,
      state        |-> "created",
      return_value |-> None,
      calls        |-> 0,
      waited       |-> 0,
      log          |-> <<>> ]

Logged(unit, event) == [unit EXCEPT !.log = Append(@, event)]

\* The results of decorating: variant(function) for the immediate
\* decorators, variant(seconds)(function) for the delayed ones.
Wrappers ==
    {[variant |-> v, function |-> f, seconds |-> 0] :
        v \in ImmediateVariants, f \in Functions}
    \cup
    {[variant |-> v, function |-> f, seconds |-> d] :
        v \in DelayedVariants, f \in Functions, d \in Delays}

TypeOK ==
    /\ wrapper \in Wrappers
    /\ pc \in [Callers -> {"idle", "constructed", "flagged", "started",
                           "joined", "returned"}]
    /\ cur \in [Callers -> 0..MaxUnits]
    /\ Len(units) <= MaxUnits
    /\ counter \in 0..MaxUnits
    /\ exited \in BOOLEAN

Init ==
    /\ wrapper \in Wrappers
    /\ units = <<>>
    /\ pc = [c \in Callers |-> "idle"]
    /\ cur = [c \in Callers |-> 0]
    /\ result = [c \in Callers |-> None]
    /\ counter = 0
    /\ exited = FALSE

\* ======================= the caller's side: `call` =======================

\* call(*args, **kwargs): the constructor expression of the wrapper, with
\* `function` and `seconds` from the enclosing decorator and the arguments
\* of this call.
Construct(c) ==
    /\ ~exited
    /\ pc[c] \in {"idle", "returned"}
    /\ Len(units) < MaxUnits
    /\ \E args \in ArgsOf(wrapper.function) :
          units' = Append(units,
                          NewUnit(wrapper.variant, wrapper.function, args,
                                  wrapper.seconds, c))
    /\ cur' = [cur EXCEPT ![c] = Len(units) + 1]
    /\ result' = [result EXCEPT ![c] = None]
    /\ pc' = [pc EXCEPT ![c] = "constructed"]
    /\ UNCHANGED <<wrapper, counter, exited>>

\* the assignment of the daemon flag is lost
SetDaemon_Forgets(c) ==
    /\ ~exited
    /\ pc[c] = "constructed"
    /\ SetsDaemon(units[cur[c]].variant)
    /\ pc' = [pc EXCEPT ![c] = "flagged"]
    /\ UNCHANGED <<wrapper, units, cur, result, counter, exited>>

\* thread.daemon = True
SetDaemon(c) ==
    /\ ~exited
    /\ pc[c] = "constructed"
    /\ SetsDaemon(units[cur[c]].variant)
    /\ units' = [units EXCEPT ![cur[c]].daemon = TRUE]
    /\ pc' = [pc EXCEPT ![c] = "flagged"]
    /\ UNCHANGED <<wrapper, cur, result, counter, exited>>

\* a `call` that starts the thread first and sets the daemon flag afterwards
Start_BeforeDaemon(c) ==
    /\ ~exited
    /\ pc[c] = "constructed"
    /\ units[cur[c]].state = "created"
    /\ units' = [units EXCEPT ![cur[c]] =
                   Logged([@ EXCEPT !.state = "started", !.waited = 0],
                          "started")]
    /\ pc' = [pc EXCEPT ![c] =
                IF SetsDaemon(units[cur[c]].variant)
                THEN "constructed" ELSE "started"]
    /\ UNCHANGED <<wrapper, cur, result, counter, exited>>

\* thread.start()
Start(c) ==
    /\ ~exited
    /\ \/ pc[c] = "constructed" /\ ~SetsDaemon(units[cur[c]].variant)
       \/ pc[c] = "flagged"
    /\ units[cur[c]].state = "created"
    /\ units' = [units EXCEPT ![cur[c]] =
                   Logged([@ EXCEPT !.state = "started", !.waited = 0],
                          "started")]
    /\ pc' = [pc EXCEPT ![c] = "started"]
    /\ UNCHANGED <<wrapper, cur, result, counter, exited>>

\* a join that gives up on a unit that has not finished and cancels it
Join_Cancels(c) ==
    /\ ~exited
    /\ pc[c] = "started"
    /\ Joins(units[cur[c]].variant)
    /\ units' = [units EXCEPT ![cur[c]].state = "finished"]
    /\ pc' = [pc EXCEPT ![c] = "joined"]
    /\ UNCHANGED <<wrapper, cur, result, counter, exited>>

\* a join that does not wait for the unit
Join_NoWait(c) ==
    /\ ~exited
    /\ pc[c] = "started"
    /\ Joins(units[cur[c]].variant)
    /\ pc' = [pc EXCEPT ![c] = "joined"]
    /\ UNCHANGED <<wrapper, units, cur, result, counter, exited>>

\* thread.join(): returns once the unit's run-body has exited
Join(c) ==
    /\ ~exited
    /\ pc[c] = "started"
    /\ Joins(units[cur[c]].variant)
    /\ units[cur[c]].state = "finished"
    /\ pc' = [pc EXCEPT ![c] = "joined"]
    /\ UNCHANGED <<wrapper, units, cur, result, counter, exited>>

\* the end of `call`: the explicit return, or falling off the end
Return(c) ==
    /\ ~exited
    /\ \/ pc[c] = "started" /\ ~Joins(units[cur[c]].variant)
       \/ pc[c] = "joined"
    /\ result' = [result EXCEPT ![c] =
                    ReturnedValue(units[cur[c]].variant, units[cur[c]])]
    /\ pc' = [pc EXCEPT ![c] = "returned"]
    /\ UNCHANGED <<wrapper, units, cur, counter, exited>>

\* ===================== the unit's side: its run-body =====================

\* a timer that fires without waiting out its interval
TimerElapse_NoWait(i) ==
    /\ ~exited
    /\ units[i].state = "started"
    /\ IsTimer(units[i].class)
    /\ units' = [units EXCEPT ![i] =
                   Logged([@ EXCEPT !.state = "elapsed"], "elapsed")]
    /\ UNCHANGED <<wrapper, pc, cur, result, counter, exited>>

\* Timer.run: self.finished.wait(self.interval) returns
TimerElapse(i) ==
    /\ ~exited
    /\ units[i].state = "started"
    /\ IsTimer(units[i].class)
    /\ units[i].waited >= units[i].seconds
    /\ units' = [units EXCEPT ![i] =
                   Logged([@ EXCEPT !.state = "elapsed"], "elapsed")]
    /\ UNCHANGED <<wrapper, pc, cur, result, counter, exited>>

\* a capturing timer built with the target as the timer's own function:
\* super().run() calls the target
TimerNoop_CallsTarget(i) ==
    /\ ~exited
    /\ units[i].state = "elapsed"
    /\ units[i].class = "DelayedFunctionWithReturnValue"
    /\ units' = [units EXCEPT ![i] =
                   Logged([@ EXCEPT !.state = "fired", !.calls = @ + 1],
                          "invoked")]
    /\ UNCHANGED <<wrapper, pc, cur, result, counter, exited>>

\* _DelayedFunctionWithReturnValue: super().run() calls the timer's own
\* function, which is `lambda: None`, and comes back
TimerNoop(i) ==
    /\ ~exited
    /\ units[i].state = "elapsed"
    /\ units[i].class = "DelayedFunctionWithReturnValue"
    /\ units' = [units EXCEPT ![i].state = "fired"]
    /\ UNCHANGED <<wrapper, pc, cur, result, counter, exited>>

\* a timer whose run-body calls the target before waiting
InvokesFrom_BeforeWait(class) ==
    CASE class = "Thread" -> "started"
      [] class = "FunctionThreadWithReturnValue" -> "started"
      [] class = "Timer" -> "started"
      [] class = "DelayedFunctionWithReturnValue" -> "fired"

\* a capturing timer whose run-body calls the target before super().run()
InvokesFrom_BeforeSuperRun(class) ==
    CASE class = "Thread" -> "started"
      [] class = "FunctionThreadWithReturnValue" -> "started"
      [] class = "Timer" -> "elapsed"
      [] class = "DelayedFunctionWithReturnValue" -> "started"

\* the state in which a unit of the class calls function(*args, **kwargs)
InvokesFrom(class) ==
    CASE class = "Thread" -> "started"
      [] class = "FunctionThreadWithReturnValue" -> "started"
      [] class = "Timer" -> "elapsed"
      [] class = "DelayedFunctionWithReturnValue" -> "fired"

\* function(*args, **kwargs) is entered
Invoke(i) ==
    /\ ~exited
    /\ units[i].state = InvokesFrom(units[i].class)
    /\ units' = [units EXCEPT ![i] =
                   Logged([@ EXCEPT !.state = "running", !.calls = @ + 1],
                          "invoked")]
    /\ UNCHANGED <<wrapper, pc, cur, result, counter, exited>>

\* the target returns normally; incr has incremented the shared counter
TargetReturn(i) ==
    /\ ~exited
    /\ units[i].state = "running"
    /\ Terminates(units[i].function)
    /\ units' = [units EXCEPT ![i].state = "returned"]
    /\ counter' = IF units[i].function = "incr" THEN counter + 1 ELSE counter
    /\ UNCHANGED <<wrapper, pc, cur, result, exited>>

\* a run-body that catches the exception and stores a value in the slot
TargetRaise_StoresValue(i) ==
    /\ ~exited
    /\ units[i].state = "running"
    /\ Raises(units[i].function)
    /\ units' = [units EXCEPT ![i] =
                   Logged([@ EXCEPT !.state = "finished",
                                    !.return_value = Value(0)], "finished")]
    /\ UNCHANGED <<wrapper, pc, cur, result, counter, exited>>

\* a run-body that is stuck after the exception and never exits
TargetRaise_NeverExits(i) ==
    /\ ~exited
    /\ units[i].state = "running"
    /\ Raises(units[i].function)
    /\ units' = [units EXCEPT ![i].state = "raised"]
    /\ UNCHANGED <<wrapper, pc, cur, result, counter, exited>>

\* the target raises: the exception leaves run() and ends the thread
TargetRaise(i) ==
    /\ ~exited
    /\ units[i].state = "running"
    /\ Raises(units[i].function)
    /\ units' = [units EXCEPT ![i] =
                   Logged([@ EXCEPT !.state = "finished"], "finished")]
    /\ UNCHANGED <<wrapper, pc, cur, result, counter, exited>>

\* a run-body that stores the call's argument instead of the target's result
WriteSlot_StoresArgument(i) ==
    /\ ~exited
    /\ units[i].state = "returned"
    /\ StoresReturnValue(units[i].class)
    /\ units' = [units EXCEPT ![i].state = "written",
                              ![i].return_value = units[i].args]
    /\ UNCHANGED <<wrapper, pc, cur, result, counter, exited>>

\* self.return_value = <the value the target returned>
WriteSlot(i) ==
    /\ ~exited
    /\ units[i].state = "returned"
    /\ StoresReturnValue(units[i].class)
    /\ units' = [units EXCEPT ![i].state = "written",
                              ![i].return_value =
                                  Apply(units[i].function, units[i].args)]
    /\ UNCHANGED <<wrapper, pc, cur, result, counter, exited>>

\* threads that end only in the order in which they were created
Exit_InCreationOrder(i) ==
    /\ ~exited
    /\ \/ units[i].state = "returned" /\ ~StoresReturnValue(units[i].class)
       \/ units[i].state = "written"
    /\ \A j \in 1..(i - 1) : units[j].state = "finished"
    /\ units' = [units EXCEPT ![i] =
                   Logged([@ EXCEPT !.state = "finished"], "finished")]
    /\ UNCHANGED <<wrapper, pc, cur, result, counter, exited>>

\* run() returns and the thread ends
Exit(i) ==
    /\ ~exited
    /\ \/ units[i].state = "returned" /\ ~StoresReturnValue(units[i].class)
       \/ units[i].state = "written"
    /\ units' = [units EXCEPT ![i] =
                   Logged([@ EXCEPT !.state = "finished"], "finished")]
    /\ UNCHANGED <<wrapper, pc, cur, result, counter, exited>>

\* ============================ the environment ============================

\* a timer that is still waiting out its interval
Pending(unit) ==
    /\ unit.state = "started"
    /\ IsTimer(unit.class)
    /\ unit.waited < unit.seconds

\* One second of wall-clock time passes.  Time is observed only by the timers
\* that are waiting out their interval: each of them has waited one second
\* more.
Tick ==
    /\ ~exited
    /\ \E i \in DOMAIN units : Pending(units[i])
    /\ units' = [i \in DOMAIN units |->
                   IF Pending(units[i])
                   THEN [units[i] EXCEPT !.waited = @ + 1]
                   ELSE units[i]]
    /\ UNCHANGED <<wrapper, pc, cur, result, counter, exited>>

\* a unit that keeps the process alive: started, not daemon, not finished
KeepsAlive(unit) ==
    /\ unit.state # "finished"
    /\ ~unit.daemon

\* no caller is inside a wrapper call: every caller's flow may end here
MainFlowDone == \A c \in Callers : pc[c] \in {"idle", "returned"}

\* The callers' flows end and the interpreter exits, which it does only when
\* no non-daemon thread is left; daemon threads are abandoned where they
\* stand.
ProcessExit ==
    /\ ~exited
    /\ MainFlowDone
    /\ \A i \in DOMAIN units : ~KeepsAlive(units[i])
    /\ exited' = TRUE
    /\ UNCHANGED <<wrapper, units, pc, cur, result, counter>>

Next ==
    \/ \E c \in Callers : Construct(c)
    \/ \E c \in Callers : SetDaemon(c)
    \/ \E c \in Callers : Start(c)
    \/ \E c \in Callers : Join(c)
    \/ \E c \in Callers : Return(c)
    \/ \E i \in DOMAIN units : TimerElapse(i)
    \/ \E i \in DOMAIN units : TimerNoop(i)
    \/ \E i \in DOMAIN units : Invoke(i)
    \/ \E i \in DOMAIN units : TargetReturn(i)
    \/ \E i \in DOMAIN units : TargetRaise(i)
    \/ \E i \in DOMAIN units : WriteSlot(i)
    \/ \E i \in DOMAIN units : Exit(i)
    \/ Tick
    \/ ProcessExit

Spec == Init /\ [][Next]_vars

\* the next statement of caller c's `call`, once the call is under way
CallStep(c) == SetDaemon(c) \/ Start(c) \/ Join(c) \/ Return(c)

\* the next step of the run-body of the i-th unit
UnitStep(i) ==
    /\ i \in DOMAIN units
    /\ \/ TimerElapse(i)
       \/ TimerNoop(i)
       \/ Invoke(i)
       \/ TargetReturn(i)
       \/ TargetRaise(i)
       \/ WriteSlot(i)
       \/ Exit(i)

\* Fair scheduling: a thread that can take its next step is not starved
\* forever, and time does not stop while a timer is waiting.
Fairness ==
    /\ \A c \in Callers : WF_vars(CallStep(c))
    /\ \A i \in 1..MaxUnits : WF_vars(UnitStep(i))
    /\ WF_vars(Tick)

\* The runs that decorate the target with a joining decorator, under fair
\* scheduling.  No such wrapper sets the daemon flag.
BlockingInit == Init /\ Joins(wrapper.variant)

BlockingNext ==
    \/ \E c \in Callers : Construct(c)
    \/ \E c \in Callers : Start(c)
    \/ \E c \in Callers : Join(c)
    \/ \E c \in Callers : Return(c)
    \/ \E i \in DOMAIN units : TimerElapse(i)
    \/ \E i \in DOMAIN units : TimerNoop(i)
    \/ \E i \in DOMAIN units : Invoke(i)
    \/ \E i \in DOMAIN units : TargetReturn(i)
    \/ \E i \in DOMAIN units : TargetRaise(i)
    \/ \E i \in DOMAIN units : WriteSlot(i)
    \/ \E i \in DOMAIN units : Exit(i)
    \/ Tick
    \/ ProcessExit

FairSpec == BlockingInit /\ [][BlockingNext]_vars /\ Fairness

\* ================================ claims =================================

\* the unit of caller c's current wrapper call
Unit(c) == units[cur[c]]

\* caller c's call of the wrapper `variant` has come back
Returned(c, variant) ==
    /\ pc[c] = "returned"
    /\ Unit(c).variant = variant

IsPrefix(s, t) ==
    /\ Len(s) <= Len(t)
    /\ \A k \in 1..Len(s) : s[k] = t[k]

\* the events of a unit that ran its target to the end, in order
FullLog(class) ==
    IF IsTimer(class)
    THEN <<"started", "elapsed", "invoked", "finished">>
    ELSE <<"started", "invoked", "finished">>

\* the unit has been started for at least its delay
DelayElapsed(unit) == unit.waited >= unit.seconds

\* C1: whenever a call thread_with_return_value(f)(*a) with a normally
\* terminating f has come back, f has finished and the caller holds exactly
\* the value f(*a) produced.
C1_ImmediateCapturingReturnsResult ==
    \A c \in Callers :
        Returned(c, "thread_with_return_value")
        /\ Terminates(Unit(c).function)
        => /\ Unit(c).state = "finished"
           /\ result[c] = Apply(Unit(c).function, Unit(c).args)

\* C2: whenever a call delay_with_return_value(d)(f)(*a) with a normally
\* terminating f has come back, the caller holds exactly the value f(*a)
\* produced, at least d seconds have passed since the timer was started, and
\* the unit ran started, elapsed, invoked, finished before the return.
C2_DelayedCapturingReturnsResult ==
    \A c \in Callers :
        Returned(c, "delay_with_return_value")
        /\ Terminates(Unit(c).function)
        => /\ result[c] = Apply(Unit(c).function, Unit(c).args)
           /\ Unit(c).return_value = result[c]
           /\ Unit(c).state = "finished"
           /\ Unit(c).log = FullLog(Unit(c).class)
           /\ DelayElapsed(Unit(c))

C2_Witness ==
    \E c \in Callers :
        /\ Returned(c, "delay_with_return_value")
        /\ Unit(c).function = "square"
        /\ Unit(c).seconds > 0
        /\ result[c] = Value(4)

\* C3: the Result Slot of a thread_with_return_value unit whose target raises
\* holds None in every state, and once the call has come back the unit is
\* finished (the join completed) and the caller holds None.
C3_ImmediateCapturingSwallowsFault ==
    /\ \A i \in DOMAIN units :
          units[i].variant = "thread_with_return_value"
          /\ Raises(units[i].function)
          => units[i].return_value = None
    /\ \A c \in Callers :
          Returned(c, "thread_with_return_value") /\ Raises(Unit(c).function)
          => /\ Unit(c).state = "finished"
             /\ Unit(c).calls = 1
             /\ result[c] = None

C3_Witness ==
    \E c \in Callers :
        /\ Returned(c, "thread_with_return_value")
        /\ Raises(Unit(c).function)
        /\ Unit(c).calls = 1

\* C4: the Result Slot of a delay_with_return_value unit whose target raises
\* holds None in every state, and once the call has come back the delay has
\* elapsed, the target was invoked after it, the unit is finished and the
\* caller holds None.
C4_DelayedCapturingSwallowsFault ==
    /\ \A i \in DOMAIN units :
          units[i].variant = "delay_with_return_value"
          /\ Raises(units[i].function)
          => units[i].return_value = None
    /\ \A c \in Callers :
          Returned(c, "delay_with_return_value") /\ Raises(Unit(c).function)
          => /\ Unit(c).state = "finished"
             /\ Unit(c).log = FullLog(Unit(c).class)
             /\ DelayElapsed(Unit(c))
             /\ result[c] = None

C4_Witness ==
    \E c \in Callers :
        /\ Returned(c, "delay_with_return_value")
        /\ Raises(Unit(c).function)
        /\ Unit(c).seconds > 0
        /\ Unit(c).calls = 1

NonBlockingVariants == {"thread", "thread_daemon", "delay", "delay_daemon"}

\* C5: in thread, thread_daemon, delay and delay_daemon the return of the
\* wrapper is enabled in every state in which the caller has started the
\* unit, whatever the unit has done so far and whatever its target is.
C5_NonBlockingReturnEnabled ==
    \A c \in Callers :
        pc[c] = "started" /\ Unit(c).variant \in NonBlockingVariants
        => ENABLED Return(c)

\* the wrapper has come back while its never-terminating target is running
C5_Witness ==
    \E c \in Callers :
        /\ pc[c] = "returned"
        /\ Unit(c).variant \in NonBlockingVariants
        /\ Unit(c).function = "spin"
        /\ Unit(c).state = "running"

\* the calls of incr that have run to the end of their thread
FinishedIncrs ==
    {i \in DOMAIN units :
        units[i].function = "incr" /\ units[i].state = "finished"}

\* C6: whenever a call thread_join(f)(*a) has come back, its thread is
\* finished, and if f is incr the shared counter already counts that call.
C6_ThreadJoinReturnsAfterTarget ==
    \A c \in Callers :
        Returned(c, "thread_join")
        => /\ Unit(c).state = "finished"
           /\ Unit(c).function = "incr"
              => counter >= 1 /\ counter >= Cardinality(FinishedIncrs)

C6_Witness ==
    \E c \in Callers :
        /\ Returned(c, "thread_join")
        /\ Unit(c).function = "incr"
        /\ counter = 1

\* C7: the events of a delay_join unit are always a prefix of started,
\* elapsed, invoked, finished; the delay has elapsed on the clock once
\* "elapsed" is among them; and the wrapper has come back only when all four
\* have happened.
C7_DelayJoinOrder ==
    /\ \A i \in DOMAIN units :
          units[i].variant = "delay_join"
          => /\ IsPrefix(units[i].log, FullLog(units[i].class))
             /\ Len(units[i].log) >= 2 => DelayElapsed(units[i])
    /\ \A c \in Callers :
          Returned(c, "delay_join")
          => Unit(c).log = FullLog(Unit(c).class)

C7_Witness ==
    \E c \in Callers :
        /\ Returned(c, "delay_join")
        /\ Unit(c).seconds > 0
        /\ Unit(c).function = "square"

DaemonVariants == {"thread_daemon", "delay_daemon"}

\* the units of the non-daemon variants that have not finished
LiveNonDaemonUnits ==
    {i \in DOMAIN units :
        units[i].variant \notin DaemonVariants /\ units[i].state # "finished"}

\* C8: once the callers' flows are over, process exit is enabled whenever
\* every unit of a non-daemon variant is finished, whatever the units of
\* thread_daemon and delay_daemon are doing; and the process has exited only
\* if every unit of a non-daemon variant is finished.
C8_DaemonDoesNotBlockExit ==
    /\ ~exited /\ MainFlowDone /\ LiveNonDaemonUnits = {}
       => ENABLED ProcessExit
    /\ exited => LiveNonDaemonUnits = {}

\* the process has exited while a daemon unit was pending or running
C8_Witness ==
    /\ exited
    /\ \E i, j \in DOMAIN units :
          /\ units[i].variant \in DaemonVariants
          /\ units[i].state = "started"
          /\ units[j].state = "running"

CapturingVariants == {"thread_with_return_value", "delay_with_return_value"}

\* C9: every step in which the `call` of a capturing wrapper comes back (the
\* step that reads the Result Slot) is taken with the unit in the finished
\* state and leaves the slot as it was.
C9_SlotReadOnlyWhenFinished ==
    [][\A c \in Callers :
          pc[c] # "returned" /\ pc'[c] = "returned"
          /\ Unit(c).variant \in CapturingVariants
          => /\ Unit(c).state = "finished"
             /\ units'[cur[c]].return_value = Unit(c).return_value]_vars

C9_Witness ==
    \E c \in Callers :
        /\ Returned(c, "delay_with_return_value")
        /\ result[c] = Value(1)

\* caller d's capturing call was under way before caller c's call began and
\* still is: the two invocations are in flight at once
InFlightWith(c, d) ==
    /\ c # d
    /\ cur[d] # 0
    /\ cur[d] < cur[c]
    /\ pc[d] \in {"constructed", "started", "joined"}
    /\ Unit(d).variant \in CapturingVariants

\* C10: every unit is owned by the caller whose call created it, two calls
\* never share a unit, a slot holds None or the result of its own unit's
\* call, and a capturing call that has come back from a normally terminating
\* target while another caller's capturing call was in flight hands its
\* caller the result of that very call.
C10_EachCallerGetsOwnResult ==
    /\ \A c \in Callers : cur[c] # 0 => Unit(c).owner = c
    /\ \A c, d \in Callers : c # d /\ cur[c] # 0 => cur[c] # cur[d]
    /\ \A i \in DOMAIN units :
          units[i].return_value
              \in {None, Apply(units[i].function, units[i].args)}
    /\ \A c \in Callers :
          pc[c] = "returned"
          /\ Unit(c).variant \in CapturingVariants
          /\ Terminates(Unit(c).function)
          /\ (\E d \in Callers : InFlightWith(c, d))
          => result[c] = Apply(Unit(c).function, Unit(c).args)

\* the states of a unit in which its target has not returned yet
BeforeTargetReturn == {"created", "started", "elapsed", "fired", "running"}

\* C11: the Result Slot of a capturing unit holds None until the target has
\* returned, holds the target's result from the write on, and holds None at
\* the end when the target raised; the only step that changes a slot is the
\* unit's own write, taken once, after the target returned and before the
\* run-body exits, from None to the target's result.
C11_SlotWrittenOnce ==
    /\ [](\A i \in DOMAIN units :
            StoresReturnValue(units[i].class)
            => /\ units[i].state \in BeforeTargetReturn \cup {"returned"}
                  => units[i].return_value = None
               /\ units[i].state = "written"
                  => units[i].return_value
                        = Apply(units[i].function, units[i].args)
               /\ units[i].state = "finished"
                  => units[i].return_value
                        = IF Terminates(units[i].function)
                          THEN Apply(units[i].function, units[i].args)
                          ELSE None)
    /\ [][\A i \in DOMAIN units :
            units'[i].return_value # units[i].return_value
            => /\ StoresReturnValue(units[i].class)
               /\ units[i].state = "returned"
               /\ units'[i].state = "written"
               /\ units[i].return_value = None
               /\ units'[i].return_value
                     = Apply(units[i].function, units[i].args)]_vars

C11_Witness ==
    \E i \in DOMAIN units :
        /\ units[i].class = "FunctionThreadWithReturnValue"
        /\ units[i].state = "finished"
        /\ units[i].return_value = Value(4)

\* the events of a timer unit up to the end of its wait
WaitedLog == <<"started", "elapsed">>

\* C12: a timer unit whose target has been invoked has waited out its delay
\* and logged "elapsed" before "invoked"; a delay_with_return_value unit
\* that has waited out its delay and finished the timer's own firing step
\* (state "fired") has not yet invoked its target nor written its slot.
C12_TargetAfterDelay ==
    \A i \in DOMAIN units :
        IsTimer(units[i].class)
        => /\ units[i].calls > 0
              => /\ DelayElapsed(units[i])
                 /\ IsPrefix(WaitedLog, units[i].log)
                 /\ units[i].log[3] = "invoked"
           /\ units[i].state \in {"created", "started", "elapsed", "fired"}
              => /\ units[i].calls = 0
                 /\ units[i].return_value = None

C12_Witness ==
    \E i \in DOMAIN units :
        /\ units[i].class = "DelayedFunctionWithReturnValue"
        /\ units[i].seconds > 0
        /\ units[i].state = "written"
        /\ units[i].calls = 1

\* how many times the event occurs in the log
Occurrences(log, event) ==
    Cardinality({k \in 1..Len(log) : log[k] = event})

\* C13: a step of a caller into `call` adds exactly one unit and no other
\* step adds or removes one; every unit is started at most once and its
\* target invoked at most once, exactly once when the unit has finished; and
\* the arguments a unit was created with never change.
C13_OneUnitOneInvocation ==
    /\ [](\A i \in DOMAIN units :
            /\ units[i].calls <= 1
            /\ units[i].calls = Occurrences(units[i].log, "invoked")
            /\ Occurrences(units[i].log, "started") <= 1
            /\ units[i].state = "finished" => units[i].calls = 1
            /\ units[i].args \in ArgsOf(units[i].function))
    /\ [][/\ Len(units') = Len(units)
             + Cardinality({c \in Callers :
                              pc[c] # "constructed" /\ pc'[c] = "constructed"})
          /\ \A i \in DOMAIN units :
                /\ units'[i].args = units[i].args
                /\ units'[i].function = units[i].function]_vars

C13_Witness ==
    \E i \in DOMAIN units :
        /\ units[i].class = "DelayedFunctionWithReturnValue"
        /\ units[i].state = "finished"
        /\ units[i].calls = 1
        /\ units[i].args = <<2>>

\* caller c is inside a call of a joining wrapper whose target's execution
\* ends, by returning or by raising
InBlockingCall(c) ==
    /\ pc[c] \in {"constructed", "flagged", "started", "joined"}
    /\ Joins(Unit(c).variant)
    /\ Terminates(Unit(c).function) \/ Raises(Unit(c).function)

\* C14: under fair scheduling, a caller inside a call of thread_join,
\* thread_with_return_value, delay_join or delay_with_return_value whose
\* target returns or raises eventually has the call back.
C14_BlockingCallReturns ==
    \A c \in Callers : InBlockingCall(c) ~> pc[c] = "returned"

C14_Witness ==
    \E c \in Callers :
        /\ Returned(c, "delay_join")
        /\ Raises(Unit(c).function)
        /\ Unit(c).seconds > 0

NonCapturingVariants == Variants \ CapturingVariants

FireAndForgetVariants == {"thread", "delay"}

\* two units of successive calls of a fire-and-forget wrapper by one caller
Successive(i, j) ==
    /\ i < j
    /\ units[i].owner = units[j].owner
    /\ units[i].variant \in FireAndForgetVariants

\* C16: of two units spawned by successive calls of thread or delay from one
\* caller, neither waits for the other: whenever both targets are running
\* each of them may return next, and whenever both have returned each
\* thread may end next.
C16_NoCompletionOrder ==
    \A i, j \in DOMAIN units :
        Successive(i, j)
        => /\ units[i].state = "running" /\ units[j].state = "running"
              /\ Terminates(units[i].function)
              => ENABLED TargetReturn(i) /\ ENABLED TargetReturn(j)
           /\ units[i].state = "returned" /\ units[j].state = "returned"
              => ENABLED Exit(i) /\ ENABLED Exit(j)

\* the second-started unit has finished while the first-started has not
C16_Witness ==
    \E i, j \in DOMAIN units :
        /\ Successive(i, j)
        /\ units[i].state = "returned"
        /\ units[j].state = "finished"

\* the steps a unit of the class may take from one state to the next
Forward(class) ==
    {<<"created", "started">>,
     <<"running", "returned">>, <<"running", "finished">>}
    \cup (IF IsTimer(class)
          THEN {<<"started", "elapsed">>}
          ELSE {<<"started", "running">>})
    \cup (IF class = "Timer" THEN {<<"elapsed", "running">>} ELSE {})
    \cup (IF class = "DelayedFunctionWithReturnValue"
          THEN {<<"elapsed", "fired">>, <<"fired", "running">>}
          ELSE {})
    \cup (IF StoresReturnValue(class)
          THEN {<<"returned", "written">>, <<"written", "finished">>}
          ELSE {<<"returned", "finished">>})

\* C17: no step removes a unit; a unit changes state only forward along
\* created, started, (elapsed, fired,) running, (returned, written,)
\* finished, so it is started once, leaves the started state only towards
\* the invocation of its target (a waiting timer is never cancelled), and
\* reaches finished only from the running of its target; a finished unit
\* never changes again.
C17_ForwardOnly ==
    [][\A i \in DOMAIN units :
          /\ i \in DOMAIN units'
          /\ units'[i].state # units[i].state
             => <<units[i].state, units'[i].state>>
                   \in Forward(units[i].class)
          /\ units[i].state = "finished" => units'[i] = units[i]]_vars

C17_Witness ==
    \E i \in DOMAIN units :
        /\ units[i].variant = "delay"
        /\ units[i].seconds > 0
        /\ units[i].state = "finished"

\* C18: of two units created by one caller's calls of a joining wrapper, the
\* earlier one is finished in every state in which the later one exists, so
\* their targets never run at the same time.
C18_BlockingCallsSequential ==
    \A i, j \in DOMAIN units :
        /\ i < j
        /\ units[i].owner = units[j].owner
        /\ Joins(units[i].variant)
        => /\ units[i].state = "finished"
           /\ ~(units[i].state = "running" /\ units[j].state = "running")

C18_Witness ==
    \E i, j \in DOMAIN units :
        /\ i < j
        /\ units[i].owner = units[j].owner
        /\ Joins(units[i].variant)
        /\ units[j].state = "running"

\* C19: the only step that changes a unit's daemon flag sets it, in a unit of
\* thread_daemon or delay_daemon that is still in the created state; a unit
\* of these two wrappers that has left the created state has the flag set,
\* and a unit of the other six wrappers never has.
C19_DaemonSetBeforeStart ==
    /\ [](\A i \in DOMAIN units :
            /\ units[i].variant \notin DaemonVariants => ~units[i].daemon
            /\ units[i].variant \in DaemonVariants
               /\ units[i].state # "created"
               => units[i].daemon)
    /\ [][\A i \in DOMAIN units :
            units'[i].daemon # units[i].daemon
            => /\ units[i].variant \in DaemonVariants
               /\ units[i].state = "created"
               /\ units'[i].state = "created"
               /\ units'[i].daemon]_vars

C19_Witness ==
    \E i \in DOMAIN units :
        /\ units[i].variant = "delay_daemon"
        /\ units[i].daemon
        /\ units[i].state = "elapsed"

====
